---- MODULE Spec2Model ----
(***************************************************************************)
(* Job-status tracking and progress broadcast of the contract analysis API *)
(* (backend/app/api/routes.py).  The program is a single asyncio process:  *)
(* a handler runs without interruption between two awaits, so every action *)
(* below is the code between one suspension point and the next.            *)
(***************************************************************************)
EXTENDS Integers, Sequences, FiniteSets, TLC

\* ---------------------------------------------------------------- bounds
MaxJobs == 2            \* accepted submissions (one pipeline run each)
NumChannels == 2        \* websocket connections opened
NumContents == 1        \* distinct file contents uploaded
MaxTime == 1            \* last reading of the clock
MaxDeletes == 2         \* delete requests made
MaxLoad == 5            \* load of the requests made (see Load)
TicksPerSecond == 1     \* clock readings that fall in the same second
MaxUploads == 1         \* uploads accepted by POST /analyze under UploadSpec

Jobs == 1..MaxJobs
Channels == 1..NumChannels
Contents == 1..NumContents
\* str(e) of the exception a stage raises; an exception may have no message
ErrorMessages == {"boom", ""}

\* ---------------------------------------------------------------- helpers
\* an assignment that overwrites the value of every key
PutEverywhere(f, k, v) == [x \in (DOMAIN f) \cup {k} |-> v]

\* dict item assignment
Put(f, k, v) == [x \in (DOMAIN f) \cup {k} |-> IF x = k THEN v ELSE f[x]]

Remove(f, k) == [x \in (DOMAIN f) \ {k} |-> f[x]]

Range(s) == {s[i] : i \in 1..Len(s)}

\* list.remove(x): drops the first occurrence of x
ListRemove(s, x) ==
    IF x \in Range(s)
    THEN LET i == CHOOSE k \in 1..Len(s) : s[k] = x /\ \A m \in 1..(k-1) : s[m] # x
         IN SubSeq(s, 1, i-1) \o SubSeq(s, i+1, Len(s))
    ELSE s

\* hashlib.md5(file_content).hexdigest()[:16]: a function of the content only
ContentHash(content) == <<"md5", content>>

\* int(datetime.now().timestamp()): the clock truncated to whole seconds
Timestamp(t) == t \div TicksPerSecond

\* f"doc_{timestamp}_{content_hash}"
DocumentId(t, content) == <<"doc", Timestamp(t), ContentHash(content)>>

DocIds == {DocumentId(t, c) : t \in 0..MaxTime, c \in Contents}

NoDoc == <<"doc", -1, <<"md5", 0>>>>

NoStatus == [document_id |-> NoDoc, status |-> "none", progress |-> 0,
             message |-> "", timestamp |-> 0, error_details |-> "None"]

VARIABLES
    analysis_status_store,   \* document id -> latest status snapshot
    analysis_results_store,  \* document id -> analysis result
    active_connections,      \* manager.active_connections: document id -> list of channels
    now,                     \* the wall clock
    job,                     \* per submission: the submit handler and its background task
    ws,                      \* per channel: the websocket_endpoint handler and its transport
    del,                     \* per document id: the delete_analysis handler
    deletes,                 \* number of delete requests made so far
    written,                 \* history: per document id, the number of snapshots written
    upload,                  \* the batch_analyze_contracts handler
    response,                \* the latest response of an upload endpoint
    order,                   \* the keys of analysis_status_store in the order of the dict
    pong                     \* the latest text frame sent by websocket_endpoint

vars == <<analysis_status_store, analysis_results_store, active_connections,
          now, job, ws, del, deletes, written, upload, response, order, pong>>

\* a submission: where its handler or background task stands; inside
\* send_status_update, the copy of the group, the loop index and the snapshot
\* being sent; failed is the set of channels whose send raised in the latest
\* broadcast
IdleJob == [pc |-> "idle", document_id |-> NoDoc, content |-> 0,
            connections |-> <<>>, idx |-> 0, status_update |-> NoStatus,
            resume |-> "idle", failed |-> {}]

\* a channel: the transport, the id it watches and, as the peer sees it, the
\* first and the last snapshot delivered and the number of snapshots delivered
\* by broadcast; registered_at is the value of written[id] at registration
IdleWs == [state |-> "idle", document_id |-> NoDoc, first |-> NoStatus,
           last |-> NoStatus, broadcasts |-> 0, registered_at |-> 0]

\* a delete request for an id: where the handler stands ("raised": it ended
\* with an exception), the copy of the group it closes and the loop index;
\* inflight: a submission or pipeline run for the id was under way when the
\* request began; resubmitted: a submission was accepted under the id since
IdleDel == [pc |-> "idle", connections |-> <<>>, idx |-> 0,
            inflight |-> FALSE, resubmitted |-> FALSE]

\* the batch handler: where it stands ("raised": it ended with an
\* HTTPException), its files, the index of the loop, its result list and the
\* jobs it has added to its background tasks, in the order of add_task
IdleUpload == [pc |-> "idle", files |-> <<>>, idx |-> 0, results |-> <<>>,
               tasks |-> <<>>]

\* the latest response of an upload endpoint
NoResponse == [code |-> 0, results |-> <<>>]

\* no text frame sent yet
NoPong == [channel |-> 0, text |-> <<>>]

\* the order of a dict after a step: keys deleted leave the order, a key
\* assigned again keeps its place, a new key goes to the end
DictOrder(keys, store) ==
    LET Kept(d) == d \in DOMAIN store
        kept == SelectSeq(keys, Kept)
        new == (DOMAIN store) \ Range(keys)
    IN IF new = {} THEN kept ELSE Append(kept, CHOOSE d \in new : TRUE)

Init ==
    /\ analysis_status_store = <<>>
    /\ analysis_results_store = <<>>
    /\ active_connections = <<>>
    /\ now = 0
    /\ job = [j \in Jobs |-> IdleJob]
    /\ ws = [c \in Channels |-> IdleWs]
    /\ del = [d \in DocIds |-> IdleDel]
    /\ deletes = 0
    /\ written = [d \in DocIds |-> 0]
    /\ upload = IdleUpload
    /\ response = NoResponse
    /\ order = <<>>
    /\ pong = NoPong

\* ------------------------------------------------------ ConnectionManager
\* ConnectionManager.connect, after accept() has returned
Connect(conns, websocket, document_id) ==
    LET base == IF document_id \in DOMAIN conns THEN conns
                ELSE Put(conns, document_id, <<>>)
    IN [base EXCEPT ![document_id] = Append(@, websocket)]

\* disconnect without the removal of a group left empty
DisconnectKeepsEmptyGroup(conns, websocket, document_id) ==
    IF document_id \in DOMAIN conns
    THEN [conns EXCEPT ![document_id] = ListRemove(@, websocket)]
    ELSE conns

\* disconnect that drops the whole group of the channel
DisconnectDropsGroup(conns, websocket, document_id) ==
    Remove(conns, document_id)

\* ConnectionManager.disconnect
Disconnect(conns, websocket, document_id) ==
    IF document_id \in DOMAIN conns
    THEN LET list == ListRemove(conns[document_id], websocket)
         IN IF list = <<>> THEN Remove(conns, document_id)
            ELSE [conns EXCEPT ![document_id] = list]
    ELSE conns

\* send_status_update: the copy of the group the loop iterates over
ConnectionsCopy(conns, document_id) ==
    IF document_id \in DOMAIN conns THEN conns[document_id] ELSE <<>>

\* a send on a transport succeeds while the transport is connected
SendSucceeds(c) == ws[c].state = "connected"

Closed(c) == ws[c].state \in {"peer_closed", "server_closed", "exited"}

\* ------------------------------------------------- update_analysis_status
\* a snapshot that never carries error details
StatusUpdateWithoutDetails(t, document_id, status, progress, message, error_details) ==
    [document_id |-> document_id, status |-> status, progress |-> progress,
     message |-> message, timestamp |-> t, error_details |-> "None"]

\* the status_update dict
StatusUpdate(t, document_id, status, progress, message, error_details) ==
    [document_id |-> document_id, status |-> status, progress |-> progress,
     message |-> message, timestamp |-> t, error_details |-> error_details]

\* update_analysis_status up to the first send: stores the snapshot, takes the
\* copy of the group; the caller resumes at `resume` once every send is done
UpdateAnalysisStatus(j, base, t, document_id, status, progress, message, error_details, resume) ==
    LET status_update == StatusUpdate(t, document_id, status, progress, message, error_details)
        connections == ConnectionsCopy(active_connections, document_id)
    IN /\ now' = t
       /\ analysis_status_store' = Put(analysis_status_store, document_id, status_update)
       /\ written' = [written EXCEPT ![document_id] = @ + 1]
       /\ job' = [job EXCEPT ![j] =
                    IF connections = <<>>
                    THEN [base EXCEPT !.pc = resume,
                                      !.connections = <<>>,
                                      !.idx = 0,
                                      !.failed = {}]
                    ELSE [base EXCEPT !.pc = "send_status_update",
                                      !.resume = resume,
                                      !.connections = connections,
                                      !.idx = 1,
                                      !.status_update = status_update,
                                      !.failed = {}]]

\* send_json(status) on a connected transport: the peer gets the snapshot
Deliver(w, status) ==
    [w EXCEPT !.first = IF @ = NoStatus THEN status ELSE @,
              !.last = status,
              !.broadcasts = @ + 1]

\* a loop whose failing send is not caught: the exception reaches the caller,
\* which reports the failure of the run
SendStatusUpdateRaises(j) ==
    /\ job[j].pc = "send_status_update"
    /\ LET connection == job[j].connections[job[j].idx]
           last == job[j].idx = Len(job[j].connections)
       IN IF SendSucceeds(connection)
          THEN /\ ws' = [ws EXCEPT ![connection] = Deliver(@, job[j].status_update)]
               /\ job' = [job EXCEPT ![j] =
                            [@ EXCEPT !.pc = IF last THEN job[j].resume ELSE @,
                                      !.resume = IF last THEN "idle" ELSE @,
                                      !.status_update = IF last THEN NoStatus ELSE @,
                                      !.idx = @ + 1]]
               /\ UNCHANGED <<analysis_status_store, now, written>>
          ELSE /\ UpdateAnalysisStatus(j, job[j], now, job[j].document_id, "failed", 0,
                                       "failure", "send failed", "finished")
               /\ UNCHANGED ws
    /\ UNCHANGED <<analysis_results_store, active_connections, del, deletes>>

\* one iteration of the loop of send_status_update
SendStatusUpdate(j) ==
    /\ job[j].pc = "send_status_update"
    /\ LET connection == job[j].connections[job[j].idx]
           last == job[j].idx = Len(job[j].connections)
       IN /\ IF SendSucceeds(connection)
             THEN /\ ws' = [ws EXCEPT ![connection] = Deliver(@, job[j].status_update)]
                  /\ UNCHANGED active_connections
             ELSE /\ active_connections' =
                        Disconnect(active_connections, connection, job[j].document_id)
                  /\ UNCHANGED ws
          /\ job' = [job EXCEPT ![j] =
                       [@ EXCEPT !.pc = IF last THEN job[j].resume ELSE @,
                                 !.resume = IF last THEN "idle" ELSE @,
                                 !.status_update = IF last THEN NoStatus ELSE @,
                                 !.idx = @ + 1,
                                 !.failed = IF SendSucceeds(connection) THEN @
                                            ELSE @ \cup {connection}]]
    /\ UNCHANGED <<analysis_status_store, analysis_results_store, now, del, deletes, written>>

\* ------------------------------------------- upload_and_analyze_contract
InFlight(document_id) ==
    \E j \in Jobs : job[j].document_id = document_id
                    /\ job[j].pc \notin {"idle", "finished"}

\* the submissions accepted so far
Accepted == {j \in Jobs : job[j].pc # "idle"}

\* the load of the requests made so far: a submission, which brings a pipeline
\* run of a dozen steps, weighs twice a subscription or a delete
Load ==
    Cardinality({j \in Jobs : job[j].pc # "idle"}) * 2
    + Cardinality({c \in Channels : ws[c].state # "idle"}) + deletes

\* the clock is read at time t, not before the previous reading
ClockReadings == now..MaxTime

\* a valid upload: the id is minted, the pending status stored and broadcast,
\* the background task added
Submit(j, content, t) ==
    /\ job[j].pc = "idle"
    /\ \A k \in 1..(j-1) : job[k].pc # "idle"
    /\ Load + 2 <= MaxLoad
    /\ LET document_id == DocumentId(t, content)
           base == [job[j] EXCEPT !.document_id = document_id, !.content = content]
       IN /\ UpdateAnalysisStatus(j, base, t, document_id, "pending", 0, "received",
                                  "None", "scheduled")
          /\ del' = [del EXCEPT ![document_id].resubmitted = TRUE]
    /\ UNCHANGED <<analysis_results_store, active_connections, ws, deletes>>

\* ---------------------------------------------- process_contract_analysis
AnalysisResult(j) == [run |-> j, content |-> job[j].content]

\* a background task that gives up when its status record is gone
RunnerStartUnlessDeleted(j, t) ==
    /\ job[j].pc = "scheduled"
    /\ job[j].document_id \in DOMAIN analysis_status_store
    /\ UpdateAnalysisStatus(j, job[j], t, job[j].document_id, "processing", 10,
                            "starting", "None", "stage1")
    /\ UNCHANGED <<analysis_results_store, active_connections, ws, del, deletes>>

\* the background task starts: first update, then the call of stage 1
RunnerStart(j, t) ==
    /\ job[j].pc = "scheduled"
    /\ UpdateAnalysisStatus(j, job[j], t, job[j].document_id, "processing", 10,
                            "starting", "None", "stage1")
    /\ UNCHANGED <<analysis_results_store, active_connections, ws, del, deletes>>

StageNumber(pc) ==
    CASE pc = "stage1" -> 1 [] pc = "stage2" -> 2
      [] pc = "stage3" -> 3 [] pc = "stage4" -> 4 [] OTHER -> 0

\* a runner that reports 'completed' without storing the result
StageReturnsDropsResult(j, t) ==
    /\ StageNumber(job[j].pc) # 0
    /\ LET n == StageNumber(job[j].pc)
           d == job[j].document_id
       IN CASE n = 1 -> UpdateAnalysisStatus(j, job[j], t, d, "processing", 30,
                                             "pdf_processed", "None", "stage2")
            [] n = 2 -> UpdateAnalysisStatus(j, job[j], t, d, "processing", 50,
                                             "clauses_identified", "None", "stage3")
            [] n = 3 -> UpdateAnalysisStatus(j, job[j], t, d, "processing", 70,
                                             "data_extracted", "None", "stage4")
            [] n = 4 -> UpdateAnalysisStatus(j, job[j], t, d, "completed", 100,
                                             "complete", "None", "finished")
    /\ UNCHANGED <<analysis_results_store, active_connections, ws, del, deletes>>

\* a stage call returns normally
StageReturns(j, t) ==
    /\ StageNumber(job[j].pc) # 0
    /\ LET n == StageNumber(job[j].pc)
           d == job[j].document_id
       IN CASE n = 1 -> /\ UpdateAnalysisStatus(j, job[j], t, d, "processing", 30,
                                                "pdf_processed", "None", "stage2")
                        /\ UNCHANGED analysis_results_store
            [] n = 2 -> /\ UpdateAnalysisStatus(j, job[j], t, d, "processing", 50,
                                                "clauses_identified", "None", "stage3")
                        /\ UNCHANGED analysis_results_store
            [] n = 3 -> /\ UpdateAnalysisStatus(j, job[j], t, d, "processing", 70,
                                                "data_extracted", "None", "stage4")
                        /\ UNCHANGED analysis_results_store
            [] n = 4 -> /\ analysis_results_store' =
                              Put(analysis_results_store, d, AnalysisResult(j))
                        /\ UpdateAnalysisStatus(j, job[j], t, d, "completed", 100,
                                                "complete", "None", "finished")
    /\ UNCHANGED <<active_connections, ws, del, deletes>>

\* an except branch that reports the failure and calls the stage again
StageRaisesAndRetries(j, e, t) ==
    /\ StageNumber(job[j].pc) # 0
    /\ UpdateAnalysisStatus(j, job[j], t, job[j].document_id, "failed", 0,
                            "failure", e, job[j].pc)
    /\ UNCHANGED <<analysis_results_store, active_connections, ws, del, deletes>>

\* a stage call raises: the except branch
StageRaises(j, e, t) ==
    /\ StageNumber(job[j].pc) # 0
    /\ UpdateAnalysisStatus(j, job[j], t, job[j].document_id, "failed", 0,
                            "failure", e, "finished")
    /\ UNCHANGED <<analysis_results_store, active_connections, ws, del, deletes>>

\* ------------------------------------------------------ read endpoints
\* a status read that answers an unknown id with a default 'pending' status
GetAnalysisStatusWithDefault(document_id) ==
    IF document_id \notin DOMAIN analysis_status_store
    THEN [code |-> 200, body |-> [NoStatus EXCEPT !.status = "pending"]]
    ELSE [code |-> 200, body |-> analysis_status_store[document_id]]

\* get_analysis_status
GetAnalysisStatus(document_id) ==
    IF document_id \notin DOMAIN analysis_status_store
    THEN [code |-> 404, body |-> NoStatus]
    ELSE [code |-> 200, body |-> analysis_status_store[document_id]]

\* a result read that looks at the result store before the status
GetAnalysisResultStale(document_id) ==
    IF document_id \in DOMAIN analysis_results_store
    THEN [code |-> 200, body |-> analysis_results_store[document_id]]
    ELSE IF document_id \notin DOMAIN analysis_status_store
    THEN [code |-> 404]
    ELSE [code |-> 202]

\* get_analysis_result
GetAnalysisResult(document_id) ==
    IF document_id \notin DOMAIN analysis_status_store
    THEN [code |-> 404]
    ELSE IF analysis_status_store[document_id].status # "completed"
    THEN [code |-> 202]
    ELSE IF document_id \notin DOMAIN analysis_results_store
    THEN [code |-> 500]
    ELSE [code |-> 200, body |-> analysis_results_store[document_id]]

\* list.sort(key=timestamp, reverse=True): by timestamp, latest first; the
\* sort is stable, so entries with equal timestamps keep their order
RECURSIVE SortByTimestamp(_)
SortByTimestamp(s) ==
    IF s = <<>> THEN <<>>
    ELSE LET rest == SortByTimestamp(Tail(s))
             k == Cardinality({i \in 1..Len(rest) : rest[i].timestamp > Head(s).timestamp})
         IN SubSeq(rest, 1, k) \o <<Head(s)>> \o SubSeq(rest, k + 1, Len(rest))

\* the entry of list_analyses for a status record
ListEntry(status_info) ==
    [document_id |-> status_info.document_id, status |-> status_info.status,
     progress |-> status_info.progress, message |-> status_info.message,
     timestamp |-> status_info.timestamp]

\* list_analyses
ListAnalyses ==
    LET analyses == [i \in 1..Len(order) |-> ListEntry(analysis_status_store[order[i]])]
    IN [analyses |-> SortByTimestamp(analyses), total |-> Len(analyses)]

\* -------------------------------------------------------- delete_analysis
\* connection.close(): closes a connected transport; the exception of a
\* close on a dead transport is swallowed
Close(w, c) ==
    IF w[c].state = "connected" THEN [w EXCEPT ![c].state = "server_closed"] ELSE w

\* a delete that leaves the entry where it is
KeepEntry(store, document_id) == store

\* `if document_id in store: del store[document_id]`
RemoveEntry(store, document_id) == Remove(store, document_id)

\* delete_analysis up to its first await
DeleteStart(document_id) ==
    /\ del[document_id].pc # "closing"
    /\ deletes < MaxDeletes
    /\ Load + 1 <= MaxLoad
    /\ deletes' = deletes + 1
    /\ analysis_status_store' = RemoveEntry(analysis_status_store, document_id)
    /\ analysis_results_store' = RemoveEntry(analysis_results_store, document_id)
    /\ IF ConnectionsCopy(active_connections, document_id) # <<>>
       THEN LET connections == active_connections[document_id]
            IN /\ ws' = Close(ws, connections[1])
               /\ del' = [del EXCEPT ![document_id] =
                            [pc |-> "closing", connections |-> connections, idx |-> 1,
                             inflight |-> InFlight(document_id), resubmitted |-> FALSE]]
               /\ UNCHANGED active_connections
       ELSE /\ ws' = ws
            /\ active_connections' = Remove(active_connections, document_id)
            /\ del' = [del EXCEPT ![document_id] =
                         [pc |-> "done", connections |-> <<>>, idx |-> 0,
                          inflight |-> InFlight(document_id), resubmitted |-> FALSE]]
    /\ UNCHANGED <<now, job, written>>

\* delete_analysis resumes after a close(): the next close, or the del of the group
DeleteResume(document_id) ==
    /\ del[document_id].pc = "closing"
    /\ IF del[document_id].idx < Len(del[document_id].connections)
       THEN /\ ws' = Close(ws, del[document_id].connections[del[document_id].idx + 1])
            /\ del' = [del EXCEPT ![document_id].idx = @ + 1]
            /\ UNCHANGED active_connections
       ELSE /\ ws' = ws
            /\ IF document_id \in DOMAIN active_connections
               THEN /\ active_connections' = Remove(active_connections, document_id)
                    /\ del' = [del EXCEPT ![document_id].pc = "done"]
               ELSE /\ active_connections' = active_connections
                    /\ del' = [del EXCEPT ![document_id].pc = "raised"]
    /\ UNCHANGED <<analysis_status_store, analysis_results_store, now, job,
                   deletes, written>>

\* ----------------------------------------------------- websocket_endpoint
\* an endpoint that sends nothing after registering
InitialStatusSkipped(store, document_id) == NoStatus

\* what the endpoint sends right after registering: the stored snapshot, if any
InitialStatus(store, document_id) ==
    IF document_id \in DOMAIN store THEN store[document_id] ELSE NoStatus

\* accept() returns: register in the Hub and send the current snapshot
WsConnect(c, document_id) ==
    /\ ws[c].state = "idle"
    /\ \A k \in 1..(c-1) : ws[k].state # "idle"
    /\ Load + 1 <= MaxLoad
    /\ active_connections' = Connect(active_connections, c, document_id)
    /\ ws' = [ws EXCEPT ![c] =
                [state |-> "connected", document_id |-> document_id,
                 first |-> InitialStatus(analysis_status_store, document_id),
                 last |-> InitialStatus(analysis_status_store, document_id),
                 broadcasts |-> 0,
                 registered_at |-> written[document_id]]]
    /\ UNCHANGED <<analysis_status_store, analysis_results_store, now, job, del,
                   deletes, written>>

\* the text frames a peer sends
Texts == {"ping", ""}

\* an endpoint that echoes the frame and then leaves the Hub
PingThenUnregister(c, data) ==
    /\ ws[c].state = "connected"
    /\ pong' = [channel |-> c, text |-> <<"pong: ", data>>]
    /\ active_connections' = Disconnect(active_connections, c, ws[c].document_id)
    /\ UNCHANGED <<analysis_status_store, analysis_results_store,
                   now, job, ws, del, deletes, written, upload, response>>

\* receive_text() returns a frame of the peer: the endpoint echoes it
Ping(c, data) ==
    /\ ws[c].state = "connected"
    /\ pong' = [channel |-> c, text |-> <<"pong: ", data>>]
    /\ UNCHANGED <<analysis_status_store, analysis_results_store, active_connections,
                   now, job, ws, del, deletes, written, upload, response>>

\* the peer goes away
PeerClose(c) ==
    /\ ws[c].state = "connected"
    /\ ws' = [ws EXCEPT ![c].state = "peer_closed"]
    /\ UNCHANGED <<analysis_status_store, analysis_results_store, active_connections,
                   now, job, del, deletes, written>>

\* receive_text() raises WebSocketDisconnect: the except branch
WsDisconnected(c) ==
    /\ ws[c].state \in {"peer_closed", "server_closed"}
    /\ active_connections' = Disconnect(active_connections, c, ws[c].document_id)
    /\ ws' = [ws EXCEPT ![c] = [IdleWs EXCEPT !.state = "exited",
                                               !.document_id = ws[c].document_id]]
    /\ UNCHANGED <<analysis_status_store, analysis_results_store, now, job, del,
                   deletes, written>>

\* ------------------------------------------------------ upload validation
max_file_size == 52428800    \* settings.max_file_size
BatchLimit == 10             \* files accepted in one batch request

allowed_file_types == {"application/pdf"}

ContentTypes == {"application/pdf", "text/plain"}

\* file names, as sequences of characters
Filenames == { <<"a", ".", "P", "d", "f">>, <<"a", ".", "t", "x", "t">> }

Sizes == {max_file_size, max_file_size + 1}

Perspectives == {"investidor", "outro"}

Files == [content_type : ContentTypes, filename : Filenames, size : Sizes,
          content : Contents]

\* str.lower(), on the characters the file names are made of
LowerChar(ch) ==
    CASE ch = "P" -> "p" [] ch = "D" -> "d" [] ch = "F" -> "f" [] OTHER -> ch

Lower(s) == [i \in 1..Len(s) |-> LowerChar(s[i])]

\* str.endswith(suffix)
EndsWith(s, suffix) ==
    /\ Len(s) >= Len(suffix)
    /\ SubSeq(s, Len(s) - Len(suffix) + 1, Len(s)) = suffix

PdfSuffix == <<".", "p", "d", "f">>

\* a validation that does not look at the file name
ValidatePdfFileByTypeOnly(file) ==
    IF file.content_type \notin allowed_file_types THEN 415 ELSE 200

\* validate_pdf_file: the status code of the HTTPException raised, 200 if none
ValidatePdfFile(file) ==
    IF file.content_type \notin allowed_file_types THEN 415
    ELSE IF ~EndsWith(Lower(file.filename), PdfSuffix) THEN 415
    ELSE 200

\* the checks of upload_and_analyze_contract, in the order of the code: the
\* status code of the rejection, 202 if the upload is accepted
UploadCheck(file, perspectiva) ==
    IF ValidatePdfFile(file) # 200 THEN ValidatePdfFile(file)
    ELSE IF perspectiva \notin {"fundador", "investidor"} THEN 400
    ELSE IF file.size > max_file_size THEN 413
    ELSE 202

\* ------------------------------------- upload endpoints, with validation
\* the entry of the result list for a scheduled file
Scheduled(file, document_id) ==
    [filename |-> file.filename, document_id |-> document_id,
     status |-> "pending", error |-> "None"]

\* the entry of the result list for a file over the size limit
ItemError(file) ==
    [filename |-> file.filename, document_id |-> NoDoc,
     status |-> "None", error |-> "too_large"]

\* POST /analyze: rejected by one of the checks, or accepted as in Submit
Upload(j, file, perspectiva, t) ==
    IF UploadCheck(file, perspectiva) # 202
    THEN /\ j = 1 /\ t = now
         /\ response' = [code |-> UploadCheck(file, perspectiva), results |-> <<>>]
         /\ UNCHANGED <<analysis_status_store, analysis_results_store,
                        active_connections, now, job, ws, del, deletes, written,
                        upload>>
    ELSE /\ Cardinality(Accepted) < MaxUploads
         /\ Submit(j, file.content, t)
         /\ response' = [code |-> 202,
                         results |-> <<Scheduled(file, DocumentId(t, file.content))>>]
         /\ UNCHANGED upload

GoodFile == [content_type |-> "application/pdf", filename |-> <<"a", ".", "p", "d", "f">>,
             size |-> max_file_size, content |-> 1]

LargeFile == [GoodFile EXCEPT !.size = max_file_size + 1]

WrongTypeFile == [GoodFile EXCEPT !.content_type = "text/plain"]

\* the batches submitted: one with a file over the size limit between two
\* good files, one with a file of the wrong type between two good files, one
\* of a single file over the size limit, and one over the limit on the number
\* of files
Batches ==
    { <<GoodFile, LargeFile, GoodFile>>, <<GoodFile, WrongTypeFile, GoodFile>>,
      <<LargeFile>>, [i \in 1..(BatchLimit + 1) |-> GoodFile] }

\* a file of a batch that passes validation and the size check
Acceptable(file) == ValidatePdfFile(file) = 200 /\ file.size <= max_file_size

\* the batch handler is suspended in the update of the item it has accepted
HandlerSuspended ==
    \E j \in Jobs : job[j].pc = "send_status_update" /\ job[j].resume = "added"

\* POST /analyze/batch, made once: the limit on the number of files
BatchStart(files) ==
    /\ upload.pc = "idle"
    /\ IF Len(files) > BatchLimit
       THEN /\ response' = [code |-> 400, results |-> <<>>]
            /\ UNCHANGED upload
       ELSE /\ LET n == Cardinality({i \in 1..Len(files) : Acceptable(files[i])})
               IN /\ Load + 2 * n <= MaxLoad
                  /\ n <= Cardinality({j \in Jobs : job[j].pc = "idle"})
            /\ upload' = [pc |-> "running", files |-> files, idx |-> 1,
                          results |-> <<>>, tasks |-> <<>>]
            /\ UNCHANGED response
    /\ UNCHANGED <<analysis_status_store, analysis_results_store,
                   active_connections, now, job, ws, del, deletes, written>>

\* one iteration of the loop over the files of the batch
BatchItem(j, t) ==
    /\ upload.pc = "running"
    /\ ~HandlerSuspended
    /\ upload.idx <= Len(upload.files)
    /\ LET file == upload.files[upload.idx]
           document_id == DocumentId(t, file.content)
       IN IF ValidatePdfFile(file) # 200
          THEN /\ upload' = [upload EXCEPT !.pc = "raised"]
               /\ response' = [code |-> ValidatePdfFile(file), results |-> <<>>]
               /\ UNCHANGED <<analysis_status_store, now, job, del, written>>
          ELSE IF file.size > max_file_size
          THEN /\ upload' = [upload EXCEPT !.idx = @ + 1,
                                           !.results = Append(@, ItemError(file))]
               /\ UNCHANGED <<analysis_status_store, now, job, del, written, response>>
          ELSE /\ job[j].pc = "idle"
               /\ \A k \in 1..(j-1) : job[k].pc # "idle"
               /\ UpdateAnalysisStatus(j, [job[j] EXCEPT !.document_id = document_id,
                                                         !.content = file.content],
                                       t, document_id, "pending", 0, "queued",
                                       "None", "added")
               /\ del' = [del EXCEPT ![document_id].resubmitted = TRUE]
               /\ upload' = [upload EXCEPT !.idx = @ + 1,
                                           !.results = Append(@, Scheduled(file, document_id)),
                                           !.tasks = Append(@, j)]
               /\ UNCHANGED response
    /\ UNCHANGED <<analysis_results_store, active_connections, ws, deletes>>

\* the loop is over: the handler returns the result list
BatchReturn ==
    /\ upload.pc = "running"
    /\ ~HandlerSuspended
    /\ upload.idx > Len(upload.files)
    /\ upload' = [upload EXCEPT !.pc = "returned"]
    /\ response' = [code |-> 200, results |-> upload.results]
    /\ UNCHANGED <<analysis_status_store, analysis_results_store,
                   active_connections, now, job, ws, del, deletes, written>>

\* the background tasks of a request run after its response, one after the
\* other in the order of add_task
TaskNext(j) ==
    /\ upload.pc = "returned"
    /\ job[j].pc = "added"
    /\ \E i \in 1..Len(upload.tasks) :
          /\ upload.tasks[i] = j
          /\ \A k \in 1..(i-1) : job[upload.tasks[k]].pc = "finished"
    /\ job' = [job EXCEPT ![j].pc = "scheduled"]
    /\ UNCHANGED <<analysis_status_store, analysis_results_store,
                   active_connections, now, ws, del, deletes, written,
                   upload, response>>

\* the valid uploads, the pipeline, the deletes and the channels
Next ==
    /\ \/ \E j \in Jobs, content \in Contents, t \in ClockReadings : Submit(j, content, t)
       \/ \E j \in Jobs, t \in ClockReadings : RunnerStart(j, t)
       \/ \E j \in Jobs, t \in ClockReadings : StageReturns(j, t)
       \/ \E j \in Jobs, e \in ErrorMessages, t \in ClockReadings : StageRaises(j, e, t)
       \/ \E j \in Jobs : SendStatusUpdate(j)
       \/ \E d \in DocIds : DeleteStart(d)
       \/ \E d \in DocIds : DeleteResume(d)
       \/ \E c \in Channels, d \in DocIds : WsConnect(c, d)
       \/ \E c \in Channels : PeerClose(c)
       \/ \E c \in Channels : WsDisconnected(c)
    /\ UNCHANGED <<upload, response, pong>>
    /\ order' = DictOrder(order, analysis_status_store')

Spec == Init /\ [][Next]_vars

\* POST /analyze with its validation, the pipeline and the channels
UploadNext ==
    /\ \/ \E j \in Jobs, file \in Files, perspectiva \in Perspectives, t \in ClockReadings :
             Upload(j, file, perspectiva, t)
       \/ \E j \in Jobs, t \in ClockReadings :
             RunnerStart(j, t) /\ UNCHANGED <<upload, response>>
       \/ \E j \in Jobs, t \in ClockReadings :
             StageReturns(j, t) /\ UNCHANGED <<upload, response>>
       \/ \E j \in Jobs, e \in ErrorMessages, t \in ClockReadings :
             StageRaises(j, e, t) /\ UNCHANGED <<upload, response>>
       \/ \E j \in Jobs : SendStatusUpdate(j) /\ UNCHANGED <<upload, response>>
       \/ \E c \in Channels, d \in DocIds :
             WsConnect(c, d) /\ UNCHANGED <<upload, response>>
    /\ UNCHANGED pong
    /\ order' = DictOrder(order, analysis_status_store')

UploadSpec == Init /\ [][UploadNext]_vars

\* POST /analyze/batch, its background tasks, the pipeline and the channels
BatchNext ==
    /\ \/ \E files \in Batches : BatchStart(files)
       \/ \E j \in Jobs, t \in ClockReadings : BatchItem(j, t)
       \/ BatchReturn
       \/ \E j \in Jobs : TaskNext(j)
       \/ \E j \in Jobs, t \in ClockReadings :
             RunnerStart(j, t) /\ UNCHANGED <<upload, response>>
       \/ \E j \in Jobs, t \in ClockReadings :
             StageReturns(j, t) /\ UNCHANGED <<upload, response>>
       \/ \E j \in Jobs, e \in ErrorMessages, t \in ClockReadings :
             StageRaises(j, e, t) /\ UNCHANGED <<upload, response>>
       \/ \E j \in Jobs : SendStatusUpdate(j) /\ UNCHANGED <<upload, response>>
       \/ \E c \in Channels, d \in DocIds :
             WsConnect(c, d) /\ UNCHANGED <<upload, response>>
    /\ UNCHANGED pong
    /\ order' = DictOrder(order, analysis_status_store')

BatchSpec == Init /\ [][BatchNext]_vars

\* the channels with their pings, one upload and its pipeline
ChannelNext ==
    /\ \/ \E c \in Channels, data \in Texts : Ping(c, data)
       \/ \E j \in Jobs, content \in Contents, t \in ClockReadings :
             /\ Cardinality(Accepted) < MaxUploads
             /\ Submit(j, content, t)
             /\ UNCHANGED pong
       \/ \E j \in Jobs, t \in ClockReadings : RunnerStart(j, t) /\ UNCHANGED pong
       \/ \E j \in Jobs, t \in ClockReadings : StageReturns(j, t) /\ UNCHANGED pong
       \/ \E j \in Jobs, e \in ErrorMessages, t \in ClockReadings :
             StageRaises(j, e, t) /\ UNCHANGED pong
       \/ \E j \in Jobs : SendStatusUpdate(j) /\ UNCHANGED pong
       \/ \E c \in Channels, d \in DocIds : WsConnect(c, d) /\ UNCHANGED pong
       \/ \E c \in Channels : PeerClose(c) /\ UNCHANGED pong
       \/ \E c \in Channels : WsDisconnected(c) /\ UNCHANGED pong
    /\ UNCHANGED <<upload, response>>
    /\ order' = DictOrder(order, analysis_status_store')

ChannelSpec == Init /\ [][ChannelNext]_vars

\* a single upload or a batch, the background tasks and the pipeline
AcceptNext ==
    /\ \/ \E j \in Jobs, content \in Contents, t \in ClockReadings :
             /\ Cardinality(Accepted) < MaxUploads
             /\ upload.pc = "idle"
             /\ Submit(j, content, t)
             /\ UNCHANGED <<upload, response>>
       \/ \E files \in Batches : BatchStart(files)
       \/ \E j \in Jobs, t \in ClockReadings : BatchItem(j, t)
       \/ BatchReturn
       \/ \E j \in Jobs : TaskNext(j)
       \/ \E j \in Jobs, t \in ClockReadings :
             RunnerStart(j, t) /\ UNCHANGED <<upload, response>>
       \/ \E j \in Jobs, t \in ClockReadings :
             StageReturns(j, t) /\ UNCHANGED <<upload, response>>
       \/ \E j \in Jobs, e \in ErrorMessages, t \in ClockReadings :
             StageRaises(j, e, t) /\ UNCHANGED <<upload, response>>
       \/ \E j \in Jobs : SendStatusUpdate(j) /\ UNCHANGED <<upload, response>>
       \/ \E c \in Channels, d \in DocIds :
             WsConnect(c, d) /\ UNCHANGED <<upload, response>>
    /\ UNCHANGED pong
    /\ order' = DictOrder(order, analysis_status_store')

\* a step of the task of job j: the event loop runs it when it is ready, a
\* stage call returns or raises, a send returns or raises
TaskStep(j) ==
    \/ TaskNext(j)
    \/ \E t \in ClockReadings : RunnerStart(j, t)
    \/ \E t \in ClockReadings : StageReturns(j, t)
    \/ \E e \in ErrorMessages, t \in ClockReadings : StageRaises(j, e, t)
    \/ SendStatusUpdate(j)

\* a step of the batch handler
HandlerStep ==
    \/ \E j \in Jobs, t \in ClockReadings : BatchItem(j, t)
    \/ BatchReturn

\* the event loop is fair to every task and to the handler; requests are made
\* or not
FairAcceptSpec ==
    /\ Init /\ [][AcceptNext]_vars
    /\ \A j \in Jobs : WF_vars(AcceptNext /\ TaskStep(j))
    /\ WF_vars(AcceptNext /\ HandlerStep)

TypeOK ==
    /\ DOMAIN analysis_status_store \subseteq DocIds
    /\ DOMAIN analysis_results_store \subseteq DocIds
    /\ DOMAIN active_connections \subseteq DocIds
    /\ now \in 0..MaxTime
\* ================================================================ claims
Terminal == {"completed", "failed"}

NonTerminal == {"pending", "processing"}

\* C1: every document id with a stored result has a stored status, and that
\* status is 'completed'.
C1_ResultImpliesCompleted ==
    \A d \in DOMAIN analysis_results_store :
        /\ d \in DOMAIN analysis_status_store
        /\ analysis_status_store[d].status = "completed"

\* C2: once the stored status of an id is terminal, no later write changes it:
\* the record stays as it is until it is deleted.
C2_TerminalIsFinal ==
    [][\A d \in DOMAIN analysis_status_store :
          (analysis_status_store[d].status \in Terminal
           /\ d \in DOMAIN analysis_status_store')
          => analysis_status_store'[d] = analysis_status_store[d]]_vars

\* C5: a result read for an id whose status is pending or processing answers
\* "not ready" (202), whatever the result store holds.
C5_NotReadyWhileRunning ==
    \A d \in DOMAIN analysis_status_store :
        analysis_status_store[d].status \in NonTerminal
        => GetAnalysisResult(d) = [code |-> 202]

\* C5 witness: a pending or processing id whose result store entry exists
C5_Witness ==
    \E d \in DOMAIN analysis_status_store :
        /\ analysis_status_store[d].status \in NonTerminal
        /\ d \in DOMAIN analysis_results_store

\* C6: the Hub maps no document id to an empty list of channels.
C6_NoEmptyGroup ==
    \A d \in DOMAIN active_connections : active_connections[d] # <<>>

\* C6 witness: a channel has left the Hub, the other one of its group has
\* been pruned, and the group is gone
C6_Witness ==
    \E c1, c2 \in Channels :
        /\ c1 # c2
        /\ ws[c1].state = "exited"
        /\ ws[c2].state = "peer_closed"
        /\ ws[c1].document_id = ws[c2].document_id
        /\ deletes = 0
        /\ ws[c1].document_id \notin DOMAIN active_connections
\* C3 (as claimed): once delete(id) has returned, and until a new submission
\* is accepted under id, status and result reads answer 404 and every channel
\* of the group that the delete took is closed, also with a run in flight.
C3_DeletedStaysDeleted ==
    \A d \in DocIds :
        (del[d].pc = "done" /\ ~del[d].resubmitted)
        => /\ GetAnalysisStatus(d).code = 404
           /\ GetAnalysisResult(d).code = 404
           /\ \A c \in Range(del[d].connections) : Closed(c)

\* C3 (amended): the same, for a delete that began while no submission and no
\* pipeline run for id was under way.
C3_DeletedStaysDeletedWhenQuiet ==
    \A d \in DocIds :
        (del[d].pc = "done" /\ ~del[d].resubmitted /\ ~del[d].inflight)
        => /\ GetAnalysisStatus(d).code = 404
           /\ GetAnalysisResult(d).code = 404
           /\ \A c \in Range(del[d].connections) : Closed(c)

\* C3 witness: a delete of a job that had finished, with a channel to close
C3_Witness ==
    \E d \in DocIds :
        /\ del[d].pc = "done" /\ ~del[d].resubmitted /\ ~del[d].inflight
        /\ written[d] > 0
        /\ del[d].connections # <<>>

\* C4: a delete request never ends with an exception.
C4_DeleteNeverRaises ==
    \A d \in DocIds : del[d].pc # "raised"

\* C7: a channel that subscribes to an id with a stored status gets that
\* snapshot first, before any broadcast, and what it got first stays first.
C7_InitialSnapshotFirst ==
    [][\A c \in Channels :
          /\ (ws[c].state = "idle" /\ ws'[c].state = "connected"
              /\ ws'[c].document_id \in DOMAIN analysis_status_store)
             => /\ ws'[c].first = analysis_status_store[ws'[c].document_id]
                /\ ws'[c].broadcasts = 0
          /\ (ws[c].state = "connected" /\ ws[c].first # NoStatus
              /\ ws'[c].state # "exited")
             => ws'[c].first = ws[c].first]_vars

\* C7 witness: a channel whose first message was the snapshot of its
\* registration and which then got a later snapshot by broadcast
C7_Witness ==
    \E c \in Channels :
        /\ ws[c].state = "connected"
        /\ ws[c].first # NoStatus
        /\ ws[c].broadcasts = 1
        /\ ws[c].last # ws[c].first

\* the sends of broadcasts under way that still have channel c ahead of them
PendingSends(c) ==
    Cardinality({j \in Jobs : /\ job[j].pc = "send_status_update"
                              /\ \E k \in job[j].idx..Len(job[j].connections) :
                                    job[j].connections[k] = c})

\* C8: an open channel has received, or is about to be sent, every snapshot
\* written for its id since it registered.
C8_EveryAdvanceDelivered ==
    \A c \in Channels :
        ws[c].state = "connected"
        => ws[c].broadcasts + PendingSends(c)
             = written[ws[c].document_id] - ws[c].registered_at

InGroup(conns, c, d) == d \in DOMAIN conns /\ c \in Range(conns[d])

\* C9: each iteration of a broadcast either delivers the snapshot to its
\* channel and leaves the Hub alone, or, the send failing, removes that
\* channel and no other from the Hub; the loop goes on to the next channel of
\* the copy and ends only after the last one.
C9_FailureIsolation ==
    [][\A j \in Jobs :
          (job[j].pc = "send_status_update" /\ job'[j] # job[j])
          => LET c == job[j].connections[job[j].idx]
                 d == job[j].document_id
             IN /\ job'[j].idx = job[j].idx + 1
                /\ job'[j].pc # "send_status_update"
                   => job[j].idx = Len(job[j].connections)
                /\ IF ws[c].state = "connected"
                   THEN /\ ws'[c].last = job[j].status_update
                        /\ ws'[c].broadcasts = ws[c].broadcasts + 1
                        /\ active_connections' = active_connections
                   ELSE /\ ws' = ws
                        /\ ~InGroup(active_connections', c, d)
                        /\ \A x \in Channels \ {c}, e \in DocIds :
                              InGroup(active_connections', x, e)
                              <=> InGroup(active_connections, x, e)]_vars

\* C9 witness: a finished broadcast in which the send to an earlier channel of
\* the copy failed and a later channel, still in the Hub, got the snapshot
C9_Witness ==
    \E j \in Jobs :
        /\ deletes = 0
        /\ job[j].pc # "send_status_update"
        /\ \E k1, k2 \in 1..Len(job[j].connections) :
              /\ k1 < k2
              /\ job[j].connections[k1] \in job[j].failed
              /\ job[j].connections[k2] \notin job[j].failed
              /\ ws[job[j].connections[k2]].state = "connected"
              /\ ws[job[j].connections[k2]].broadcasts > 0
              /\ InGroup(active_connections, job[j].connections[k2], job[j].document_id)
              /\ ~InGroup(active_connections, job[j].connections[k1], job[j].document_id)

\* the place of a snapshot in the order of the pipeline
StageRank(s) ==
    CASE s.status = "pending" -> 0
      [] s.status = "processing" /\ s.progress = 10 -> 1
      [] s.status = "processing" /\ s.progress = 30 -> 2
      [] s.status = "processing" /\ s.progress = 50 -> 3
      [] s.status = "processing" /\ s.progress = 70 -> 4
      [] OTHER -> 5

\* a step after which no observer of an id has gone back in stage order
StageOrderKept ==
    /\ \A d \in (DOMAIN analysis_status_store) \cap (DOMAIN analysis_status_store') :
          StageRank(analysis_status_store'[d]) >= StageRank(analysis_status_store[d])
    /\ \A c \in Channels :
          (ws[c].state = "connected" /\ ws[c].last # NoStatus
           /\ ws'[c].state = "connected")
          => StageRank(ws'[c].last) >= StageRank(ws[c].last)

\* C10: for one id, neither a poll nor a channel sees a snapshot of an earlier
\* stage after a snapshot of a later stage.
C10_StageOrderObserved == [][StageOrderKept]_vars

\* the snapshots of a run whose stages all succeed, in the order of the writes
PipelineSequence ==
    << <<"pending", 0>>, <<"processing", 10>>, <<"processing", 30>>,
       <<"processing", 50>>, <<"processing", 70>>, <<"completed", 100>> >>

\* the place of a snapshot in PipelineSequence, 0 if it has none
Place(s) ==
    IF \E i \in 1..Len(PipelineSequence) : PipelineSequence[i] = <<s.status, s.progress>>
    THEN CHOOSE i \in 1..Len(PipelineSequence) : PipelineSequence[i] = <<s.status, s.progress>>
    ELSE 0

\* a step in which every snapshot written, other than a failure, is the first
\* of the sequence for an id never written before, and otherwise the successor
\* of the snapshot it replaces
WrittenInSequence ==
    \A d \in DocIds :
        (written'[d] # written[d] /\ analysis_status_store'[d].status # "failed")
        => IF written[d] = 0
           THEN Place(analysis_status_store'[d]) = 1
           ELSE d \in DOMAIN analysis_status_store
                => /\ Place(analysis_status_store[d]) \in 1..5
                   /\ Place(analysis_status_store'[d]) = Place(analysis_status_store[d]) + 1

\* C11: the snapshots written for the id of a submission whose stages all
\* succeed are pending(0), processing(10), (30), (50), (70), completed(100),
\* in that order and with no other snapshot in between.
C11_ExactSequence == [][WrittenInSequence]_vars

\* a step in which every snapshot written has a progress within 0..100 and not
\* below the progress of the snapshot it replaces
ProgressKept ==
    \A d \in DocIds :
        written'[d] # written[d]
        => /\ analysis_status_store'[d].progress \in 0..100
           /\ d \in DOMAIN analysis_status_store
              => analysis_status_store'[d].progress >= analysis_status_store[d].progress

\* C12: for every id, the progress of successive snapshots never decreases:
\* each snapshot written has a progress within 0..100 and at least the progress
\* of the snapshot it replaces.
C12_ProgressNeverDecreases == [][ProgressKept]_vars

\* the submit call of job j has returned and none of its stages has completed
NoStageCompleted(j) ==
    \/ job[j].pc \in {"scheduled", "stage1"}
    \/ job[j].pc = "send_status_update" /\ job[j].resume = "stage1"

\* C13: a status read made after the submit call of a valid submission has
\* returned and before any stage of its pipeline has completed returns
\* 'pending'.
C13_PendingBeforeFirstStage ==
    \A j \in Jobs :
        (NoStageCompleted(j) /\ GetAnalysisStatus(job[j].document_id).code = 200)
        => GetAnalysisStatus(job[j].document_id).body.status = "pending"

\* the runner of job j has written its terminal snapshot
RunnerDone(j) ==
    \/ job[j].pc = "finished"
    \/ job[j].pc = "send_status_update" /\ job[j].resume = "finished"

\* a step that is not the except branch of a runner, or that writes exactly
\* one snapshot, the failure with progress 0 and the message of the exception,
\* and ends the run; and a step after which a runner that is done has written
\* nothing and started no stage
FailureIsTerminal ==
    /\ \A j \in Jobs, e \in ErrorMessages, t \in ClockReadings :
          StageRaises(j, e, t)
          => LET d == job[j].document_id
             IN /\ written'[d] = written[d] + 1
                /\ \A x \in DocIds \ {d} : written'[x] = written[x]
                /\ analysis_status_store'[d].status = "failed"
                /\ analysis_status_store'[d].progress = 0
                /\ analysis_status_store'[d].error_details = e
                /\ analysis_results_store' = analysis_results_store
                /\ RunnerDone(j)'
    /\ \A j \in Jobs :
          (RunnerDone(j) /\ job'[j] # job[j])
          => /\ job[j].pc # "finished"
             /\ RunnerDone(j)'
             /\ written' = written
             /\ analysis_status_store' = analysis_status_store
             /\ analysis_results_store' = analysis_results_store

\* C14: when a stage raises, at whichever stage, the runner writes exactly one
\* further snapshot, 'failed' with progress 0 and the error message, runs no
\* later stage, does not retry, and writes nothing afterwards.
C14_FailureIsTerminal == [][FailureIsTerminal]_vars

\* C14 witness: the only run made failed at its last stage and is over, the
\* failure stored and delivered to a channel as the sixth snapshot
C14_Witness ==
    \E j \in Jobs, c \in Channels :
        /\ job[j].pc = "finished"
        /\ job[j].document_id \in DOMAIN analysis_status_store
        /\ analysis_status_store[job[j].document_id].status = "failed"
        /\ analysis_status_store[job[j].document_id].error_details \in ErrorMessages
        /\ ws[c].state = "connected"
        /\ ws[c].last = analysis_status_store[job[j].document_id]
        /\ ws[c].broadcasts = 6
        /\ \A k \in Jobs \ {j} : job[k].pc = "idle"

\* a step that leaves the stored result of every completed id as it is, or
\* removes it as part of a delete of that id
ResultKept ==
    \A d \in DOMAIN analysis_results_store :
        (d \in DOMAIN analysis_status_store
         /\ analysis_status_store[d].status = "completed")
        => IF d \in DOMAIN analysis_results_store'
           THEN analysis_results_store'[d] = analysis_results_store[d]
           ELSE deletes' = deletes + 1 /\ d \notin DOMAIN analysis_status_store'

\* C15: from the moment the status of an id is 'completed' until a delete of
\* the id, the stored result is the same object: it is neither replaced nor
\* removed by any operation other than delete.
C15_ResultStable == [][ResultKept]_vars

\* C16: distinct accepted submissions have distinct document ids, also when
\* their contents are the same; hence, as long as nothing is deleted, the
\* status store holds one record per accepted submission.
C16_DistinctIds ==
    /\ \A j1, j2 \in Accepted :
          j1 # j2 => job[j1].document_id # job[j2].document_id
    /\ deletes = 0
       => Cardinality(DOMAIN analysis_status_store) = Cardinality(Accepted)

\* an upload that the endpoint has to reject: unsupported content type, wrong
\* extension, invalid perspective or content over the size limit
Rejectable(file, perspectiva) ==
    \/ file.content_type # "application/pdf"
    \/ ~EndsWith(Lower(file.filename), PdfSuffix)
    \/ perspectiva \notin {"fundador", "investidor"}
    \/ file.size > max_file_size

\* a step that is not the upload of a rejectable file, or that answers with
\* an error and changes neither the stores nor the Hub nor any job
RejectionLeavesNoTrace ==
    \A file \in Files, perspectiva \in Perspectives :
        Rejectable(file, perspectiva)
        => \A j \in Jobs, t \in ClockReadings :
              Upload(j, file, perspectiva, t)
              => /\ response'.code \in {400, 413, 415}
                 /\ response'.results = <<>>
                 /\ analysis_status_store' = analysis_status_store
                 /\ analysis_results_store' = analysis_results_store
                 /\ active_connections' = active_connections
                 /\ job' = job
                 /\ written' = written

\* C17: a single submission that is rejected (content type, extension,
\* perspective or size) is answered with an error at once and leaves the
\* status store, the result store and the Hub as they were: no id is minted
\* and no pipeline run is scheduled.
C17_RejectedUploadChangesNothing == [][RejectionLeavesNoTrace]_vars

\* C17 witness: an upload has just been rejected for its size while a run is
\* under way, its status is stored and a channel is registered in the Hub
C17_Witness ==
    /\ response.code = 413
    /\ \E j \in Jobs : StageNumber(job[j].pc) # 0
                       /\ job[j].document_id \in DOMAIN analysis_status_store
                       /\ job[j].document_id \in DOMAIN active_connections

\* the result list has one entry per file of the batch, in the order of the
\* files: a scheduled job for every file that is acceptable by itself, an
\* error for every other file
PerItemResults(files, results, tasks) ==
    /\ Len(results) = Len(files)
    /\ \A i \in 1..Len(files) :
          /\ results[i].filename = files[i].filename
          /\ IF Acceptable(files[i])
             THEN /\ results[i].status = "pending"
                  /\ results[i].error = "None"
                  /\ \E j \in Range(tasks) : job[j].document_id = results[i].document_id
             ELSE /\ results[i].error # "None"
                  /\ results[i].document_id = NoDoc

\* a step in which a batch over the limit is rejected with nothing changed,
\* and in which the handler of a batch within the limit, if it ends, returns
\* the per-item result list
BatchContract ==
    /\ \A files \in Batches :
          (Len(files) > BatchLimit /\ BatchStart(files))
          => /\ response'.code = 400
             /\ upload' = upload
             /\ job' = job
             /\ analysis_status_store' = analysis_status_store
    /\ (upload.pc = "running" /\ upload'.pc # "running")
       => /\ upload'.pc = "returned"
          /\ response'.code = 200
          /\ PerItemResults(upload.files, response'.results, upload.tasks)

\* C18: a batch of at most 10 files returns one entry per file, in input
\* order, each a scheduled job or a per-item error; a failing item does not
\* keep the items before or after it from being scheduled; a batch of more
\* than 10 files is rejected with nothing scheduled.
C18_BatchPerItemResults == [][BatchContract]_vars

\* the ids under which a submission was accepted
Submitted == {job[j].document_id : j \in Accepted}

\* C19: for an id that was never submitted, a status read and a result read
\* both answer NotFound (404), whatever was done with other ids.
C19_UnknownIdNotFound ==
    \A d \in DocIds \ Submitted :
        /\ GetAnalysisStatus(d).code = 404
        /\ GetAnalysisResult(d).code = 404

\* C19 witness: an id never submitted has a channel registered in the Hub
\* and has been the object of a delete, while another id has completed
C19_Witness ==
    \E d \in DocIds \ Submitted, x \in Submitted :
        /\ d \in DOMAIN active_connections
        /\ del[d].pc = "done"
        /\ GetAnalysisResult(x).code = 200

\* a step that is not a failing send of a broadcast, or that leaves the
\* stores as they are and moves the broadcast on: to the next channel, or,
\* after the last one, back to the caller at the place it was to resume
SendFailureIsHarmless ==
    \A j \in Jobs :
        (/\ job[j].pc = "send_status_update"
         /\ job'[j] # job[j]
         /\ ~SendSucceeds(job[j].connections[job[j].idx]))
        => /\ analysis_status_store' = analysis_status_store
           /\ analysis_results_store' = analysis_results_store
           /\ written' = written
           /\ IF job[j].idx = Len(job[j].connections)
              THEN job'[j].pc = job[j].resume
              ELSE /\ job'[j].pc = "send_status_update"
                   /\ job'[j].resume = job[j].resume
                   /\ job'[j].status_update = job[j].status_update
                   /\ job'[j].idx = job[j].idx + 1

\* C20: a failing send during a broadcast does not change the outcome of the
\* pipeline: the snapshot stays stored, the runner goes on to its next stage
\* and the status does not become 'failed' because of it.
C20_SendFailureIsHarmless == [][SendFailureIsHarmless]_vars

\* C20 witness: the only run made is at its second stage after a broadcast of
\* processing(30) in which a send failed, and that snapshot is stored
C20_Witness ==
    \E j \in Jobs :
        /\ job[j].pc = "stage2"
        /\ job[j].failed # {}
        /\ \A k \in Jobs \ {j} : job[k].pc = "idle"
        /\ GetAnalysisStatus(job[j].document_id).code = 200
        /\ GetAnalysisStatus(job[j].document_id).body.progress = 30

\* a step that is not the receipt of a text frame, or that answers the frame
\* on the channel it came from and changes neither store nor the Hub
PingAnswered ==
    \A c \in Channels, data \in Texts :
        Ping(c, data)
        => /\ pong'.channel = c
           /\ pong'.text = <<"pong: ", data>>
           /\ analysis_status_store' = analysis_status_store
           /\ analysis_results_store' = analysis_results_store
           /\ active_connections' = active_connections

\* C21: a text ping received on a subscriber channel is answered on that same
\* channel and leaves the status store, the result store and the groups of
\* the Hub unchanged.
C21_PingAnswered == [][PingAnswered]_vars

\* C21 witness: the second channel of a group has been answered while the run
\* of its id is at a stage, after it has received a snapshot by broadcast
C21_Witness ==
    \E c \in Channels :
        /\ pong = [channel |-> c, text |-> <<"pong: ", "ping">>]
        /\ ws[c].state = "connected"
        /\ ws[c].broadcasts > 0
        /\ ws[c].document_id \in DOMAIN active_connections
        /\ active_connections[ws[c].document_id][Len(active_connections[ws[c].document_id])] = c
        /\ Len(active_connections[ws[c].document_id]) = 2
        /\ \E j \in Jobs : StageNumber(job[j].pc) # 0 /\ job[j].document_id = ws[c].document_id

\* after the step, list has one entry per id of the status store and 'total'
\* is their number, and the job whose snapshot the step has written, being
\* the most recently updated, comes first
ListMostRecentFirst ==
    LET list == ListAnalyses'
    IN /\ list.total = Cardinality(DOMAIN analysis_status_store')
       /\ Len(list.analyses) = list.total
       /\ {list.analyses[i].document_id : i \in 1..Len(list.analyses)}
             = DOMAIN analysis_status_store'
       /\ \A d \in DocIds :
             written'[d] # written[d] => list.analyses[1].document_id = d

\* C22: list returns exactly one entry per id of the status store, 'total'
\* being the number of entries, and a job updated more recently comes before
\* a job updated earlier.
C22_ListMostRecentFirst == [][ListMostRecentFirst]_vars

\* C23: every job accepted and given a 'pending' status, by single submit or
\* by batch submit, eventually has status 'completed' or 'failed', when every
\* stage call returns or raises and the scheduler is fair.
C23_AcceptedJobsTerminate ==
    \A d \in DocIds :
        (d \in DOMAIN analysis_status_store /\ analysis_status_store[d].status = "pending")
        ~> (d \in DOMAIN analysis_status_store /\ analysis_status_store[d].status \in Terminal)

\* C24: a document id whose stored status is 'completed' has an entry in the
\* result store, so the result read never answers 500.
C24_CompletedHasResult ==
    \A d \in DocIds :
        /\ (d \in DOMAIN analysis_status_store
            /\ analysis_status_store[d].status = "completed")
           => d \in DOMAIN analysis_results_store
        /\ GetAnalysisResult(d).code # 500

\* a run has completed after a delete: its result is stored and is read
C24_Witness ==
    \E d \in DocIds, j \in Jobs :
        /\ deletes > 0
        /\ job[j].pc = "finished" /\ job[j].document_id = d
        /\ d \in DOMAIN analysis_status_store
        /\ analysis_status_store[d].status = "completed"
        /\ GetAnalysisResult(d) = [code |-> 200, body |-> AnalysisResult(j)]

\* a snapshot delivered by broadcast is the one the advance has stored, and a
\* status read for its id right after the delivery returns it
DeliveredIsStored ==
    \A j \in Jobs :
        (SendStatusUpdate(j) /\ SendSucceeds(job[j].connections[job[j].idx]))
        => LET c == job[j].connections[job[j].idx]
           IN /\ ws'[c].last = job[j].status_update
              /\ GetAnalysisStatus(job[j].document_id)'
                    = [code |-> 200, body |-> ws'[c].last]

\* C25: each advance stores and broadcasts one and the same snapshot, and
\* whenever a subscriber receives a snapshot for an id by broadcast, a status
\* read for that id at that instant returns that same snapshot.
C25_PollEqualsPush == [][DeliveredIsStored]_vars

\* a step of the pipeline run of job j
RunnerStep(j) ==
    \/ \E t \in ClockReadings : RunnerStart(j, t)
    \/ \E t \in ClockReadings : StageReturns(j, t)
    \/ \E e \in ErrorMessages, t \in ClockReadings : StageRaises(j, e, t)
    \/ SendStatusUpdate(j)

\* the status record of a run in flight is gone: its id was deleted
DeletedInFlight(j) ==
    /\ job[j].pc \notin {"idle", "added", "finished"}
    /\ job[j].document_id \notin DOMAIN analysis_status_store

\* a run whose id was deleted can take its next step
RunNotStopped == \A j \in Jobs : DeletedInFlight(j) => ENABLED RunnerStep(j)

\* a delete leaves every run where it is, and the advances of a run whose id
\* was deleted store a status for the id again, with the result on success
RunGoesOn ==
    /\ \A d \in DocIds : (DeleteStart(d) \/ DeleteResume(d)) => job' = job
    /\ \A j \in Jobs :
          DeletedInFlight(j)
          => LET d == job[j].document_id
                 n == StageNumber(job[j].pc)
             IN /\ (\E t \in ClockReadings : RunnerStart(j, t))
                   => /\ d \in DOMAIN analysis_status_store'
                      /\ job'[j].pc \in {"stage1", "send_status_update"}
                /\ (\E t \in ClockReadings : StageReturns(j, t))
                   => /\ d \in DOMAIN analysis_status_store'
                      /\ n < 4 => StageNumber(IF job'[j].pc = "send_status_update"
                                              THEN job'[j].resume ELSE job'[j].pc) = n + 1
                      /\ n = 4 => /\ analysis_status_store'[d].status = "completed"
                                  /\ analysis_results_store'[d] = AnalysisResult(j)

\* C26: deleting a job while its pipeline run is in flight does not stop the
\* run: the runner executes its remaining stages, its later advances re-create
\* the status record for the deleted id, and on success it writes the result
\* and a 'completed' status for that id.
C26_DeleteDoesNotStopRun == [](RunNotStopped) /\ [][RunGoesOn]_vars

\* the only run for an id has completed after a delete of the id made while
\* the run was in flight: the status and the result are stored again
C26_Witness ==
    \E d \in DocIds, j \in Jobs :
        /\ del[d].pc = "done" /\ del[d].inflight /\ ~del[d].resubmitted
        /\ job[j].pc = "finished" /\ job[j].document_id = d
        /\ \A k \in Jobs \ {j} : job[k].pc = "idle"
        /\ GetAnalysisStatus(d).code = 200
        /\ GetAnalysisStatus(d).body.status = "completed"
        /\ GetAnalysisResult(d) = [code |-> 200, body |-> AnalysisResult(j)]

\* the entry of a dict for a key, if any
EntryOf(store, d) == IF d \in DOMAIN store THEN <<store[d]>> ELSE <<>>

\* the ids whose status record, result record or group the step has changed
Touched ==
    {d \in DocIds :
        \/ EntryOf(analysis_status_store', d) # EntryOf(analysis_status_store, d)
        \/ EntryOf(analysis_results_store', d) # EntryOf(analysis_results_store, d)
        \/ EntryOf(active_connections', d) # EntryOf(active_connections, d)}

\* a step made for one id changes the records and the group of that id only,
\* and a broadcast delivers only to channels registered under its id: the
\* steps of a submission and its run, of a delete, of a channel's endpoint,
\* and the deliveries
OneIdPerOperation ==
    /\ \A j \in Jobs :
          job'[j] # job[j] => Touched \subseteq {job'[j].document_id}
    /\ \A d \in DocIds :
          ((deletes' # deletes /\ DeleteStart(d))
           \/ (deletes' = deletes /\ del'[d] # del[d] /\ DeleteResume(d)))
          => Touched \subseteq {d}
    /\ \A c \in Channels :
          (ws'[c] # ws[c] /\ job' = job /\ del' = del)
          => Touched \subseteq {ws'[c].document_id}
    /\ \A j \in Jobs, c \in Channels :
          (job'[j] # job[j] /\ ws'[c] # ws[c])
          => /\ ws[c].document_id = job[j].document_id
             /\ ws'[c].last.document_id = ws[c].document_id

\* C27: every operation performed for one document id leaves the status
\* record, the result record and the subscriber group of every other document
\* id unchanged, and a broadcast for an id delivers only to channels registered
\* under that id.
C27_OneIdPerOperation == [][OneIdPerOperation]_vars

\* a channel of one id has got a broadcast and is still registered, while a
\* delete of another id has closed that id's channel and dropped its group
C27_Witness ==
    \E d1, d2 \in DocIds, c1, c2 \in Channels :
        /\ d1 # d2
        /\ d1 \in DOMAIN analysis_status_store
        /\ ws[c1].document_id = d1 /\ ws[c1].state = "connected"
        /\ ws[c1].broadcasts > 0 /\ ws[c1].last = analysis_status_store[d1]
        /\ active_connections = Put(<<>>, d1, <<c1>>)
        /\ del[d2].pc = "done"
        /\ ws[c2].document_id = d2 /\ ws[c2].state = "server_closed"

\* C28: a stored status snapshot has a non-empty error_details exactly when
\* its status is 'failed': snapshots with status pending, processing or
\* completed carry no error_details, and every failed snapshot carries the
\* error message.
C28_ErrorDetailsNonEmptyIffFailed ==
    \A d \in DOMAIN analysis_status_store :
        (analysis_status_store[d].error_details \notin {"None", ""})
        <=> (analysis_status_store[d].status = "failed")

\* C28, amended: a stored status snapshot has error_details set (not None)
\* exactly when its status is 'failed', and it is then str(e) of the exception
\* the stage has raised, which is the empty string for an exception without a
\* message.
C28_ErrorDetailsSetIffFailed ==
    \A d \in DOMAIN analysis_status_store :
        /\ (analysis_status_store[d].error_details # "None")
           <=> (analysis_status_store[d].status = "failed")
        /\ analysis_status_store[d].status = "failed"
           => analysis_status_store[d].error_details \in ErrorMessages

\* a run has failed with an exception without a message: the failed snapshot
\* is stored with empty error details
C28_Witness ==
    \E d \in DOMAIN analysis_status_store, j \in Jobs :
        /\ job[j].pc = "finished" /\ job[j].document_id = d
        /\ analysis_status_store[d].status = "failed"
        /\ analysis_status_store[d].error_details = ""
        /\ written[d] >= 3

====
